---- MODULE Spec2Model ----
(***************************************************************************)
(* Model of src/reddit.py: the Reddit client session.  One session is the  *)
(* construction of a Reddit object (authorize), followed by one listing    *)
(* query (subreddit, subreddit_top or aggregate) that runs the paginated   *)
(* fetcher util_get against a server whose responses are chosen            *)
(* nondeterministically.  Exceptions are never caught in the source, so a  *)
(* raise unwinds every frame in the step that raises.                      *)
(***************************************************************************)
EXTENDS Integers, Sequences, FiniteSets, TLC

VARIABLES
    environ,    \* names of the environment variables that are set (os.environ)
    headers,    \* Reddit.headers: the dict sent with every request
    token,      \* Reddit.token: <<>> before authorize, <<Token>> afterwards
    now,        \* dt.datetime.now(), in hours since the session began
    pc,         \* "start", "idle", "running", "done" or "raised"
    stack,      \* active frames, innermost last
    agg,        \* locals of aggregate
    top,        \* locals of subreddit_top
    ug,         \* locals of util_get
    ret,        \* <<>> or <<Table>>: the value returned by the last frame that returned
    err,        \* <<>> or <<exception>>: the exception that ended the session
    posts,      \* number of POSTs to the access_token endpoint
    requests,   \* every GET issued, in order
    resps,      \* the response to every GET, in order
    call,       \* <<>> or <<the query the owner of the session made>>
    checks,     \* values returned by check_expiration, in order
    server      \* what the servers of this session can answer (never changes)

vars == <<environ, headers, token, now, pc, stack, agg, top, ug, ret, err,
          posts, requests, resps, call, checks, server>>

(***************************************************************************)
(* Bounds of the model.                                                    *)
(***************************************************************************)
MaxTime == 2        \* the clock stops advancing here
MaxChecks == 2      \* calls of check_expiration in one session
MaxCursors == 2     \* cursors the listing server hands out in one session (Spec)
MaxTopCursors == 1  \* the same, in the sessions of SpecTop
MaxAggCursors == 0  \* the same, in the sessions of SpecAgg

(***************************************************************************)
(* Python values.                                                          *)
(***************************************************************************)
PyNone == "<None>"
PyTrue == "<True>"
Truthy(v) == v \notin {PyNone, ""}

(***************************************************************************)
(* Class attributes of Reddit.                                             *)
(***************************************************************************)
url_base == "https://oauth.reddit.com"
limit == 100
top_list == <<"all", "year", "month", "week", "day", "hour">>
CapacityThreshold == 900      \* the literal of `if len(df) < 900`
TokenLifeHours == 1           \* dt.timedelta(hours=1)
UserAgent == "Python script:Trends v0.2 by u/molivo10"
SecretNames == {"REDDIT_CLIENT_ID", "REDDIT_CLIENT_SECRET",
                "REDDIT_USERNAME", "REDDIT_PASSWORD"}

(***************************************************************************)
(* What the server can send.  A listing is named by its content; Children  *)
(* gives the child items of the listing's JSON, each an envelope with a    *)
(* `data` payload.  Record 1 is in both "one" and "bulk".                  *)
(***************************************************************************)
Item(id) == ("id" :> id) @@ ("created_utc" :> id)
ItemNoEpoch(id) == ("id" :> id)
Envelope(item) == [kind |-> "t3", data |-> item]

Listings == {"empty", "one", "pair", "partial", "bare", "most", "bulk"}
ChildrenOf ==
    [name \in Listings |->
       CASE name = "empty"   -> <<>>
         [] name = "one"     -> <<Envelope(Item(1))>>
         [] name = "pair"    -> <<Envelope(Item(1)), Envelope(Item(2))>>
         [] name = "partial" -> <<Envelope(Item(2)), Envelope(ItemNoEpoch(3))>>
         [] name = "bare"    -> <<Envelope(ItemNoEpoch(2))>>
         [] name = "most"    -> [i \in 1..(CapacityThreshold - 1) |-> Envelope(Item(i))]
         [] name = "bulk"    -> [i \in 1..CapacityThreshold |-> Envelope(Item(i))]]
Children(name) == ChildrenOf[name]

Cursors == {"t3_a", "t3_b"}

ListingBody(name, after) == "data" :> (("children" :> name) @@ ("after" :> after))
ListingBodyNoCursor(name) == "data" :> ("children" :> name)
ErrorBody == "message" :> "Forbidden"

RateLimit(remaining) ==
    ("x-ratelimit-remaining" :> remaining) @@ ("x-ratelimit-reset" :> 60)
NoRateLimit == "date" :> 0
Faults == {"exception", "notjson", "error", "nocursor"}

\* cursors handed out so far: those already sent back, and the one in hand
CursorsIssued ==
    Cardinality({i \in 1..Len(requests) : requests[i].params["after"] # PyTrue})
      + (IF ug # <<>> /\ ug[1].result # <<>> THEN 1 ELSE 0)

\* The responses to one GET
GetResponses ==
    { [exc |-> TRUE, status |-> 0, json |-> FALSE, body |-> ErrorBody, hdr |-> NoRateLimit] :
        f \in server.faults \cap {"exception"} }
      \cup
    { [exc |-> FALSE, status |-> st, json |-> FALSE, body |-> ErrorBody, hdr |-> NoRateLimit] :
        st \in server.statuses, f \in server.faults \cap {"notjson"} }
      \cup
    { [exc |-> FALSE, status |-> st, json |-> TRUE, body |-> b, hdr |-> h] :
        st \in server.statuses, h \in server.ratelimits,
        b \in { ErrorBody : f \in server.faults \cap {"error"} }
                \cup { ListingBodyNoCursor(k) :
                         k \in server.listings, f \in server.faults \cap {"nocursor"} }
                \cup { ListingBody(k, PyNone) : k \in server.listings }
                \cup { ListingBody(k, c) :
                         k \in server.listings,
                         c \in IF CursorsIssued < server.maxCursors
                               THEN server.cursors ELSE {} } }

(***************************************************************************)
(* Tables (DataFrames): a sequence of rows, each carrying its index label. *)
(***************************************************************************)
FromTimestamp(x) == [datetime |-> x]

RECURSIVE Concat(_)
Concat(dfs) == IF dfs = <<>> THEN <<>> ELSE Head(dfs) \o Concat(Tail(dfs))

\* mutant: the index labels of the pages are kept
ResetIndexKept(df) == df

ResetIndex(df) == [i \in 1..Len(df) |-> ("index" :> (i - 1)) @@ df[i]]

\* mutant: a page without items becomes an empty Table
DataFrameAcceptsEmpty(children) ==
    LET items == [i \in 1..Len(children) |-> children[i].data]
        hasEpoch(i) == "created_utc" \in DOMAIN items[i]
    IN  IF items # <<>> /\ \A i \in 1..Len(items) : ~hasEpoch(i)
        THEN [exc |-> "KeyError", df |-> <<>>]
        ELSE IF \E i \in 1..Len(items) : ~hasEpoch(i)
        THEN [exc |-> "ValueError", df |-> <<>>]
        ELSE [exc |-> "",
              df |-> [i \in 1..Len(items) |->
                        ("index" :> (i - 1)) @@ items[i] @@
                        ("timestamp" :> FromTimestamp(items[i]["created_utc"]))]]

\* mutant: the items without an epoch get a missing timestamp (NaT) and the
\* page is returned
DataFrameFillsNaT(children) ==
    LET items == [i \in 1..Len(children) |-> children[i].data]
        hasEpoch(i) == "created_utc" \in DOMAIN items[i]
    IN  IF \A i \in 1..Len(items) : ~hasEpoch(i)
        THEN [exc |-> "KeyError", df |-> <<>>]
        ELSE [exc |-> "",
              df |-> [i \in 1..Len(items) |->
                        IF hasEpoch(i)
                        THEN ("index" :> (i - 1)) @@ items[i] @@
                             ("timestamp" :> FromTimestamp(items[i]["created_utc"]))
                        ELSE ("index" :> (i - 1)) @@ items[i]]]

\* The body of transform_df on the child items: [exc |-> "", df |-> Table], or
\* [exc |-> exception, df |-> <<>>] where it raises
DataFrame(children) ==
    LET items == [i \in 1..Len(children) |-> children[i].data]
        hasEpoch(i) == "created_utc" \in DOMAIN items[i]
    IN  IF \A i \in 1..Len(items) : ~hasEpoch(i)
        THEN [exc |-> "KeyError", df |-> <<>>]       \* no such column
        ELSE IF \E i \in 1..Len(items) : ~hasEpoch(i)
        THEN [exc |-> "ValueError", df |-> <<>>]     \* fromtimestamp(NaN)
        ELSE [exc |-> "",
              df |-> [i \in 1..Len(items) |->
                        ("index" :> (i - 1)) @@ items[i] @@
                        ("timestamp" :> FromTimestamp(items[i]["created_utc"]))]]

\* DataFrame of every listing the server has, computed once
Normalized == [name \in Listings |-> DataFrame(ChildrenOf[name])]

transform_df(r_json) ==
    IF "data" \notin DOMAIN r_json
    THEN [exc |-> "KeyError", df |-> <<>>]
    ELSE Normalized[r_json["data"]["children"]]

(***************************************************************************)
(* The authorization exchange.                                             *)
(***************************************************************************)
EmptyDict == [k \in {} |-> k]
AuthResponses ==
    { [exc |-> TRUE, ok |-> FALSE, json |-> EmptyDict] }
      \cup
    { [exc |-> FALSE, ok |-> o, json |-> j] :
        o \in BOOLEAN,
        j \in {EmptyDict, "error" :> "invalid_grant"}
                \cup { "access_token" :> t : t \in server.tokens } }

\* mutant: os.environ.get(name, default)
GetenvWithDefault(name) == IF name \in DOMAIN environ THEN environ[name] ELSE "anonymous"

\* os.environ.get(name): the value, or None
Getenv(name) == IF name \in DOMAIN environ THEN environ[name] ELSE PyNone

\* mutant: __init__ leaves the class attribute `expired = True` in place
TokenClassDefault(expire_time) == [expired |-> TRUE, expire_time |-> expire_time]

\* Token.__init__
Token(expire_time) == [expired |-> FALSE, expire_time |-> expire_time]

(***************************************************************************)
(* Frames.  A raise is caught nowhere: it unwinds the whole stack, and the *)
(* locals of every frame are lost.                                         *)
(***************************************************************************)
Top(stk) == stk[Len(stk)]
Pop(stk) == SubSeq(stk, 1, Len(stk) - 1)

Raise(e) ==
    /\ pc' = "raised"
    /\ err' = <<e>>
    /\ stack' = <<>>
    /\ agg' = <<>>
    /\ top' = <<>>
    /\ ug' = <<>>
    /\ ret' = <<>>

\* `return v` of the innermost frame, whose locals the caller has dropped
Return(v) ==
    /\ stack' = Pop(stack)
    /\ ret' = <<v>>
    /\ pc' = IF Len(stack) = 1 THEN "done" ELSE pc
    /\ err' = err

\* __init__ and authorize
authorize ==
    /\ pc = "start"
    /\ UNCHANGED <<environ, now, requests, resps, call, checks, server>>
    /\ IF \E n \in SecretNames : ~Truthy(Getenv(n))
       THEN /\ Raise("RedditException")
            /\ UNCHANGED <<headers, token, posts>>
       ELSE \E r \in AuthResponses :
              /\ posts' = posts + 1
              /\ IF r.exc
                 THEN Raise("ConnectionError") /\ UNCHANGED <<headers, token>>
                 ELSE IF ~r.ok
                 THEN Raise("Exception") /\ UNCHANGED <<headers, token>>
                 ELSE LET tok == IF r.json # EmptyDict /\ "access_token" \in DOMAIN r.json
                                 THEN r.json["access_token"] ELSE PyNone
                      IN  IF tok = PyNone
                          THEN Raise("RedditException") /\ UNCHANGED <<headers, token>>
                          ELSE /\ headers' = ("Authorization" :> <<"bearer", tok>>) @@ headers
                               /\ token' = <<Token(now + TokenLifeHours)>>
                               /\ pc' = "idle"
                               /\ UNCHANGED <<stack, agg, top, ug, ret, err>>

\* Token.check_expiration, called by the owner of the session between queries
check_expiration ==
    /\ pc \in {"idle", "done"}
    /\ Len(checks) < MaxChecks
    /\ LET t == token[1] IN
         IF t.expire_time < now
         THEN /\ token' = <<[t EXCEPT !.expired = TRUE]>>
              /\ checks' = Append(checks, FALSE)
         ELSE /\ token' = token
              /\ checks' = Append(checks, TRUE)
    /\ UNCHANGED <<environ, headers, now, pc, stack, agg, top, ug, ret, err,
                   posts, requests, resps, call, server>>

\* the clock
Tick ==
    /\ pc \in {"idle", "running", "done"}
    /\ now < MaxTime
    /\ now' = now + 1
    /\ UNCHANGED <<environ, headers, token, pc, stack, agg, top, ug, ret, err,
                   posts, requests, resps, call, checks, server>>

(***************************************************************************)
(* util_get: the paginated fetcher.                                        *)
(***************************************************************************)
\* the locals of util_get on entry to its loop
util_get(url, params) ==
    [get_url |-> <<url_base, url>>, params |-> params,
     count |-> 0, after |-> PyTrue, result |-> <<>>]

\* mutant: once the Token's expiry has passed, the request goes out without
\* the bearer
GetRequestAnonymousWhenExpired(u) ==
    [url |-> u.get_url,
     headers |-> IF token # <<>> /\ token[1].expire_time < now
                 THEN ("User-Agent" :> UserAgent) ELSE headers,
     params |-> ("after" :> u.after) @@ u.params, at |-> now]

\* mutant: the request is sent before the cursor is put in the parameters
GetRequestBeforeInjection(u) ==
    [url |-> u.get_url, headers |-> headers, params |-> u.params, at |-> now]

\* the GET of one iteration: params["after"] = after, then requests.get
GetRequest(u) ==
    [url |-> u.get_url, headers |-> headers,
     params |-> ("after" :> u.after) @@ u.params, at |-> now]

\* mutant: `result = [df]` for `result.append(df)`: earlier pages are lost
IterateKeepsLastPage(u, r) ==
    LET params == ("after" :> u.after) @@ u.params
        df == transform_df(r.body)
    IN  IF r.exc THEN [exc |-> "ConnectionError", u |-> u]
        ELSE IF ~r.json THEN [exc |-> "JSONDecodeError", u |-> u]
        ELSE IF df.exc # "" THEN [exc |-> df.exc, u |-> u]
        ELSE IF "after" \notin DOMAIN r.body["data"] THEN [exc |-> "KeyError", u |-> u]
        ELSE IF {"x-ratelimit-remaining", "x-ratelimit-reset"} \ DOMAIN r.hdr # {}
        THEN [exc |-> "KeyError", u |-> u]
        ELSE [exc |-> "",
              u |-> [u EXCEPT !.params = params,
                              !.result = <<df.df>>,
                              !.after = r.body["data"]["after"],
                              !.count = u.count + limit]]

\* mutant: a page that cannot be normalized is skipped (try/except around
\* transform_df) and the fetch goes on
IterateSkipsBadPage(u, r) ==
    LET params == ("after" :> u.after) @@ u.params
        df == transform_df(r.body)
    IN  IF r.exc THEN [exc |-> "ConnectionError", u |-> u]
        ELSE IF ~r.json THEN [exc |-> "JSONDecodeError", u |-> u]
        ELSE IF "data" \notin DOMAIN r.body THEN [exc |-> "KeyError", u |-> u]
        ELSE IF "after" \notin DOMAIN r.body["data"] THEN [exc |-> "KeyError", u |-> u]
        ELSE IF {"x-ratelimit-remaining", "x-ratelimit-reset"} \ DOMAIN r.hdr # {}
        THEN [exc |-> "KeyError", u |-> u]
        ELSE [exc |-> "",
              u |-> [u EXCEPT !.params = params,
                              !.result = Append(u.result, df.df),
                              !.after = r.body["data"]["after"],
                              !.count = u.count + limit]]

\* One iteration of `while after:` on the response r.  exc is the exception
\* the iteration raises ("" if none); otherwise u is the locals after it.
Iterate(u, r) ==
    LET params == ("after" :> u.after) @@ u.params
        df == transform_df(r.body)
    IN  IF r.exc THEN [exc |-> "ConnectionError", u |-> u]
        ELSE IF ~r.json THEN [exc |-> "JSONDecodeError", u |-> u]
        ELSE IF df.exc # "" THEN [exc |-> df.exc, u |-> u]
        ELSE IF "after" \notin DOMAIN r.body["data"] THEN [exc |-> "KeyError", u |-> u]
        ELSE IF {"x-ratelimit-remaining", "x-ratelimit-reset"} \ DOMAIN r.hdr # {}
        THEN [exc |-> "KeyError", u |-> u]
        ELSE [exc |-> "",
              u |-> [u EXCEPT !.params = params,
                              !.result = Append(u.result, df.df),
                              !.after = r.body["data"]["after"],
                              !.count = u.count + limit]]

UtilGetStep ==
    /\ pc = "running"
    /\ stack # <<>> /\ Top(stack) = "util_get"
    /\ Truthy(ug[1].after)
    /\ \E r \in GetResponses :
         LET it == Iterate(ug[1], r) IN
           /\ requests' = Append(requests, GetRequest(ug[1]))
           /\ resps' = Append(resps, r)
           /\ IF it.exc # ""
              THEN Raise(it.exc)
              ELSE IF Truthy(it.u.after)
              THEN /\ ug' = <<it.u>>
                   /\ UNCHANGED <<pc, stack, agg, top, ret, err>>
              ELSE /\ Return(Concat(it.u.result))
                   /\ ug' = <<>>
                   /\ UNCHANGED <<agg, top>>
    /\ UNCHANGED <<environ, headers, token, now, posts, call, checks, server>>

(***************************************************************************)
(* The endpoint strategies.                                                *)
(***************************************************************************)
Subreddits == {"test"}
PlainSorts == <<"rising", "new", "hot">>
WindowSorts == <<"top", "controversial">>
Uptos == {top_list[i] : i \in 1..Len(top_list)} \cup {"decade"}

Range(seq) == {seq[i] : i \in 1..Len(seq)}

\* mutant: a lookup that falls back to the first position
IndexOrFirst(seq, x) ==
    IF x \in Range(seq) THEN CHOOSE i \in 1..Len(seq) :
                               seq[i] = x /\ \A j \in 1..(i - 1) : seq[j] # x
    ELSE 1

\* list.index: the first position of x, or 0 where Python raises ValueError
Index(seq, x) ==
    IF x \in Range(seq) THEN CHOOSE i \in 1..Len(seq) :
                               seq[i] = x /\ \A j \in 1..(i - 1) : seq[j] # x
    ELSE 0

\* subreddit(subreddit, sort), called with the frames stk below it
subreddit(stk, name, sort) ==
    /\ stack' = stk \o <<"subreddit", "util_get">>
    /\ ug' = <<util_get(<<"/r/", name, "/", sort>>,
                        ("limit" :> limit) @@ ("show" :> "all") @@ ("after" :> PyNone))>>
    /\ top' = top
    /\ pc' = "running"
    /\ ret' = <<>>
    /\ err' = err

\* the parameters subreddit_top builds for one window
TopParams(t) == ("t" :> t) @@ ("limit" :> limit) @@ ("show" :> "all")

\* mutant: the loop runs over top_list, not over top_list[slicer:]
subreddit_top_unsliced(stk, name, sort, upto) ==
    LET url == <<"/r/", name, "/", sort>>
        slicer == Index(top_list, upto)
    IN  IF slicer = 0
        THEN Raise("ValueError")
        ELSE /\ stack' = stk \o <<"subreddit_top", "util_get">>
             /\ top' = <<[url |-> url, slicer |-> slicer, pos |-> 1, result |-> <<>>]>>
             /\ ug' = <<util_get(url, TopParams(top_list[1]))>>
             /\ pc' = "running"
             /\ ret' = <<>>
             /\ err' = err

\* subreddit_top(subreddit, sort, upto) up to its first request
subreddit_top(stk, name, sort, upto) ==
    LET url == <<"/r/", name, "/", sort>>
        slicer == Index(top_list, upto)
    IN  IF slicer = 0
        THEN Raise("ValueError")
        ELSE /\ stack' = stk \o <<"subreddit_top", "util_get">>
             /\ top' = <<[url |-> url, slicer |-> slicer, pos |-> slicer, result |-> <<>>]>>
             /\ ug' = <<util_get(url, TopParams(top_list[slicer]))>>
             /\ pc' = "running"
             /\ ret' = <<>>
             /\ err' = err

CallSubreddit ==
    /\ pc = "idle"
    /\ \E name \in Subreddits, sort \in Range(PlainSorts) :
         /\ subreddit(<<>>, name, sort)
         /\ call' = <<[fn |-> "subreddit", subreddit |-> name, sort |-> sort, upto |-> ""]>>
    /\ agg' = agg
    /\ UNCHANGED <<environ, headers, token, now, posts, requests, resps, checks, server>>

CallSubredditTop ==
    /\ pc = "idle"
    /\ \E name \in Subreddits, sort \in Range(WindowSorts), upto \in Uptos :
         /\ subreddit_top(<<>>, name, sort, upto)
         /\ agg' = <<>>
         /\ call' = <<[fn |-> "subreddit_top", subreddit |-> name, sort |-> sort,
                       upto |-> upto]>>
    /\ UNCHANGED <<environ, headers, token, now, posts, requests, resps, checks, server>>

\* subreddit: `return df`
SubredditReturn ==
    /\ pc = "running"
    /\ stack # <<>> /\ Top(stack) = "subreddit"
    /\ Return(ret[1])
    /\ UNCHANGED <<environ, headers, token, now, agg, top, ug,
                   posts, requests, resps, call, checks, server>>

\* mutant: the test of the early stop is inverted
EarlyStopOnFullWindow(df) == Len(df) >= CapacityThreshold

\* mutant: a window of exactly 900 records stops the loop too
EarlyStopAtThreshold(df) == Len(df) <= CapacityThreshold

\* `if len(df) < 900: break`
EarlyStop(df) == Len(df) < CapacityThreshold

\* subreddit_top: the rest of a loop iteration once util_get has returned,
\* then the next iteration up to its request, or the code after the loop
SubredditTopNext ==
    /\ pc = "running"
    /\ stack # <<>> /\ Top(stack) = "subreddit_top"
    /\ LET f == top[1]
           df == ret[1]
           result == Append(f.result, df)
       IN  IF EarlyStop(df) \/ f.pos = Len(top_list)
           THEN /\ Return(ResetIndex(Concat(result)))
                /\ top' = <<>>
                /\ ug' = ug
           ELSE /\ top' = <<[f EXCEPT !.result = result, !.pos = f.pos + 1]>>
                /\ ug' = <<util_get(f.url, TopParams(top_list[f.pos + 1]))>>
                /\ stack' = stack \o <<"util_get">>
                /\ ret' = <<>>
                /\ UNCHANGED <<pc, err>>
    /\ UNCHANGED <<environ, headers, token, now, agg, posts, requests, resps, call, checks, server>>

\* aggregate: the sub-queries of its two list comprehensions, in order
SubQueries ==
    [i \in 1..Len(PlainSorts) |-> [fn |-> "subreddit", sort |-> PlainSorts[i]]]
      \o [i \in 1..Len(WindowSorts) |-> [fn |-> "subreddit_top", sort |-> WindowSorts[i]]]

\* mutant: the windowed sub-queries start at the coarsest window
SubQueryFromAll(stk, name, q) ==
    IF q.fn = "subreddit"
    THEN subreddit(stk, name, q.sort)
    ELSE subreddit_top(stk, name, q.sort, "all")

\* the call of sub-query q from aggregate
SubQuery(stk, name, q) ==
    IF q.fn = "subreddit"
    THEN subreddit(stk, name, q.sort)
    ELSE subreddit_top(stk, name, q.sort, "month")

CallAggregate ==
    /\ pc = "idle"
    /\ \E name \in Subreddits :
         /\ SubQuery(<<"aggregate">>, name, SubQueries[1])
         /\ agg' = IF pc' = "raised" THEN <<>>
                   ELSE <<[subreddit |-> name, i |-> 1, df_list |-> <<>>]>>
         /\ call' = <<[fn |-> "aggregate", subreddit |-> name, sort |-> "", upto |-> ""]>>
    /\ UNCHANGED <<environ, headers, token, now, posts, requests, resps, checks, server>>

\* aggregate: a sub-query has returned; call the next one or return
AggregateNext ==
    /\ pc = "running"
    /\ stack # <<>> /\ Top(stack) = "aggregate"
    /\ LET f == agg[1]
           df_list == Append(f.df_list, ret[1])
       IN  IF f.i < Len(SubQueries)
           THEN /\ SubQuery(stack, f.subreddit, SubQueries[f.i + 1])
                /\ agg' = IF pc' = "raised" THEN <<>>
                          ELSE <<[f EXCEPT !.i = f.i + 1, !.df_list = df_list]>>
           ELSE /\ Return(Concat(df_list))
                /\ agg' = <<>>
                /\ UNCHANGED <<top, ug>>
    /\ UNCHANGED <<environ, headers, token, now, posts, requests, resps, call, checks, server>>

(***************************************************************************)
(* The session.                                                            *)
(***************************************************************************)
Environs == UNION { [S -> {"", "secret"}] : S \in SUBSET SecretNames }

Start ==
    /\ environ \in Environs
    /\ headers = ("User-Agent" :> UserAgent)
    /\ token = <<>>
    /\ now = 0
    /\ pc = "start"
    /\ stack = <<>>
    /\ agg = <<>>
    /\ top = <<>>
    /\ ug = <<>>
    /\ ret = <<>>
    /\ err = <<>>
    /\ posts = 0
    /\ requests = <<>>
    /\ resps = <<>>
    /\ call = <<>>
    /\ checks = <<>>

\* Spec: one plain listing query against a server that can answer anything
Init ==
    /\ Start
    /\ server = [tokens |-> {"tokA"}, statuses |-> {200, 403},
                 listings |-> {"empty", "one", "pair", "partial", "bare"},
                 cursors |-> Cursors,
                 ratelimits |-> {RateLimit(0), NoRateLimit},
                 faults |-> Faults, maxCursors |-> MaxCursors]

Next ==
    \/ authorize
    \/ CallSubreddit
    \/ UtilGetStep
    \/ SubredditReturn

Spec == Init /\ [][Next]_vars

\* SpecTop: one windowed query; the server's listings are around the threshold
InitTop ==
    /\ Start
    /\ server = [tokens |-> {"tokA"}, statuses |-> {200},
                 listings |-> {"empty", "partial", "most", "bulk"},
                 cursors |-> {"t3_a"},
                 ratelimits |-> {RateLimit(0)},
                 faults |-> Faults, maxCursors |-> MaxTopCursors]

NextTop ==
    \/ authorize
    \/ CallSubreddit
    \/ CallSubredditTop
    \/ UtilGetStep
    \/ SubredditReturn
    \/ SubredditTopNext

SpecTop == InitTop /\ [][NextTop]_vars

\* SpecSession: the life of the credential; time passes, the listings are short
InitSession ==
    /\ Start
    /\ server = [tokens |-> {"tokA", "tokB"}, statuses |-> {200},
                 listings |-> {"one"},
                 cursors |-> {"t3_a"},
                 ratelimits |-> {RateLimit(0)},
                 faults |-> {}, maxCursors |-> MaxCursors]

NextSession ==
    \/ authorize
    \/ check_expiration
    \/ Tick
    \/ CallSubreddit
    \/ CallSubredditTop
    \/ UtilGetStep
    \/ SubredditReturn
    \/ SubredditTopNext

SpecSession == InitSession /\ [][NextSession]_vars

\* SpecAgg: one aggregate query; a short listing and one at the threshold
InitAgg ==
    /\ Start
    /\ server = [tokens |-> {"tokA"}, statuses |-> {200},
                 listings |-> {"one", "bulk"},
                 cursors |-> {"t3_a"},
                 ratelimits |-> {RateLimit(0)},
                 faults |-> {"exception"}, maxCursors |-> MaxAggCursors]

NextAgg ==
    \/ authorize
    \/ CallAggregate
    \/ UtilGetStep
    \/ SubredditReturn
    \/ SubredditTopNext
    \/ AggregateNext

SpecAgg == InitAgg /\ [][NextAgg]_vars

(***************************************************************************)
(* What the properties below observe: the requests sent and the responses  *)
(* received, the query made, and how the session ended.                    *)
(***************************************************************************)
Last(seq) == seq[Len(seq)]
IsListing(r) == ~r.exc /\ r.json /\ "data" \in DOMAIN r.body
ListingOf(r) == r.body["data"]["children"]
HasCursorField(r) == "after" \in DOMAIN r.body["data"]
PayloadsOf ==
    [name \in Listings |-> [j \in 1..Len(ChildrenOf[name]) |-> ChildrenOf[name][j].data]]
Payloads(r) == PayloadsOf[ListingOf(r)]
LacksEpoch == {name \in Listings :
                 \E j \in 1..Len(PayloadsOf[name]) :
                    "created_utc" \notin DOMAIN PayloadsOf[name][j]}

\* a Page of the data model: a successful listing response whose items all
\* carry their epoch, with a cursor (or null) and the rate-limit metadata
IsPage(r) ==
    /\ IsListing(r)
    /\ r.status < 400
    /\ HasCursorField(r)
    /\ ListingOf(r) \notin LacksEpoch
    /\ {"x-ratelimit-remaining", "x-ratelimit-reset"} \subseteq DOMAIN r.hdr
CursorOf(r) == r.body["data"]["after"]

\* the request or the handling of its response raises
StepFails(r) ==
    \/ r.exc
    \/ ~r.json
    \/ ~IsListing(r)
    \/ Payloads(r) = <<>>
    \/ ListingOf(r) \in LacksEpoch
    \/ ~HasCursorField(r)
    \/ {"x-ratelimit-remaining", "x-ratelimit-reset"} \ DOMAIN r.hdr # {}

\* requests 1..i belong to this many invocations of the fetcher: every
\* invocation opens with the first-page sentinel
InvocationOf(i) ==
    Cardinality({k \in 1..i : requests[k].params["after"] = PyTrue})
Invocations == InvocationOf(Len(requests))

RECURSIVE RowsUpTo(_, _)
\* records served to invocation k in responses 1..i
RowsUpTo(k, i) ==
    IF i = 0 THEN 0
    ELSE RowsUpTo(k, i - 1)
           + (IF InvocationOf(i) = k /\ IsListing(resps[i])
              THEN Len(Payloads(resps[i])) ELSE 0)
WindowRows(k) == RowsUpTo(k, Len(resps))

RECURSIVE RecordsUpTo(_)
\* the records of responses 1..i, in the order served
RecordsUpTo(i) ==
    IF i = 0 THEN <<>> ELSE RecordsUpTo(i - 1) \o Payloads(resps[i])
RecordsServed == RecordsUpTo(Len(resps))

Called(fn) == call # <<>> /\ call[1].fn = fn
Ended == pc \in {"done", "raised"}

(***************************************************************************)
(* C1.  On every finite sequence of pages of which only the last has a     *)
(* null cursor, util_get terminates and returns, and no request is issued  *)
(* after a page with a null cursor (no request carries a null cursor).     *)
(* Stated on finished fetches: every request carries a cursor that is not  *)
(* null, no page but the last has a null cursor, and a fetch that was      *)
(* served pages only has returned.                                         *)
(***************************************************************************)
C1_TerminatesAndReturns ==
    /\ \A i \in 1..Len(requests) : requests[i].params["after"] # PyNone
    /\ \A i \in 1..(Len(resps) - 1) :
         IsPage(resps[i]) /\ InvocationOf(i + 1) = InvocationOf(i)
            => CursorOf(resps[i]) # PyNone
    /\ (Called("subreddit") /\ Ended /\ \A i \in 1..Len(resps) : IsPage(resps[i]))
          => pc = "done" /\ ret # <<>>

(***************************************************************************)
(* C2.  The Table util_get returns is the concatenation of the records of  *)
(* every page it fetched, in fetch order: as many rows as the pages have   *)
(* records, row k holding the fields of the k-th record served.            *)
(***************************************************************************)
C2_TableIsConcatenation ==
    (Called("subreddit") /\ pc = "done") =>
        /\ Len(ret[1]) = Len(RecordsServed)
        /\ Len(ret[1]) = WindowRows(1)
        /\ \A k \in 1..Len(RecordsServed) :
             \A key \in DOMAIN RecordsServed[k] : ret[1][k][key] = RecordsServed[k][key]

C2_ThreePages ==
    /\ Called("subreddit") /\ pc = "done"
    /\ Len(resps) = 3
    /\ ListingOf(resps[1]) = "pair" /\ ListingOf(resps[2]) = "one"
    /\ ListingOf(resps[3]) = "pair"
    /\ Len(ret[1]) = 5

(***************************************************************************)
(* C3.  A non-success HTTP response to a page request makes util_get fail  *)
(* with an upstream-request error, without normalizing the body or taking  *)
(* a cursor from it.                                                       *)
(***************************************************************************)
C3_NonSuccessIsUpstreamError ==
    \A i \in 1..Len(resps) :
        (~resps[i].exc /\ resps[i].status >= 400) =>
            /\ i = Len(resps)
            /\ pc = "raised"
            /\ err = <<"UpstreamRequestError">>

(***************************************************************************)
(* C4.  Started at a valid window w, subreddit_top fetches a contiguous    *)
(* prefix of top_list from w on, in that order and each window once: the   *)
(* k-th invocation of the fetcher, and every request of it, is for the     *)
(* window k-1 places after w.  No window before w is requested.            *)
(***************************************************************************)
WindowPos(w) == CHOOSE i \in 1..Len(top_list) : top_list[i] = w

C4_WindowsArePrefix ==
    (Called("subreddit_top") /\ call[1].upto \in Range(top_list)) =>
        /\ WindowPos(call[1].upto) + Invocations - 1 <= Len(top_list)
        /\ \A i \in 1..Len(requests) :
             requests[i].params["t"]
                = top_list[WindowPos(call[1].upto) + InvocationOf(i) - 1]

C4_MonthToHour ==
    /\ Called("subreddit_top") /\ call[1].upto = "month" /\ pc = "done"
    /\ Invocations = 4
    /\ Last(requests).params["t"] = "hour"

(***************************************************************************)
(* C5.  Once the fetch of a window has returned fewer records than the     *)
(* threshold, no finer window is fetched: every window that was followed   *)
(* by another invocation of the fetcher returned at least 900 records.     *)
(***************************************************************************)
C5_EarlyStop ==
    Called("subreddit_top") =>
        \A k \in 1..(Invocations - 1) : WindowRows(k) >= CapacityThreshold

C5_MonthOnly ==
    /\ Called("subreddit_top") /\ call[1].upto = "month" /\ pc = "done"
    /\ Invocations = 1
    /\ WindowRows(1) = CapacityThreshold - 1
    /\ \A i \in 1..Len(requests) : requests[i].params["t"] = "month"

(***************************************************************************)
(* C6.  subreddit_top with a starting window that is not in top_list fails *)
(* with the error of the window lookup, and no request has been issued.    *)
(***************************************************************************)
C6_InvalidWindow ==
    (Called("subreddit_top") /\ call[1].upto \notin Range(top_list)) =>
        /\ pc = "raised"
        /\ err = <<"ValueError">>
        /\ requests = <<>>
        /\ ret = <<>>

C6_CalledWithDecade ==
    Called("subreddit_top") /\ call[1].upto = "decade" /\ pc = "raised"

(***************************************************************************)
(* C7.  Every error is fatal: when a page request or the handling of its   *)
(* response fails, in util_get called directly or for any window of        *)
(* subreddit_top, the query has ended with the error, no Table is          *)
(* returned, every frame is gone, and that request was the last one.       *)
(***************************************************************************)
C7_ErrorsAreFatal ==
    \A i \in 1..Len(resps) :
        StepFails(resps[i]) =>
            /\ i = Len(resps) /\ Len(requests) = Len(resps)
            /\ pc = "raised" /\ err # <<>>
            /\ ret = <<>>
            /\ stack = <<>> /\ ug = <<>> /\ top = <<>>

C7_FailsInSecondWindow ==
    /\ Called("subreddit_top") /\ pc = "raised"
    /\ Invocations = 2 /\ WindowRows(1) >= CapacityThreshold
    /\ StepFails(Last(resps))
    /\ ret = <<>>

(***************************************************************************)
(* C8.  The rate-limit metadata of a response is diagnostic only: what an  *)
(* iteration of util_get does with a response is what it does with the     *)
(* same response under any other rate-limit metadata, present or absent.   *)
(***************************************************************************)
C8_RateLimitIsDiagnostic ==
    [][ (Len(resps') = Len(resps) + 1) =>
          \A h \in {RateLimit(0), RateLimit(99), NoRateLimit} :
              Iterate(ug[1], [Last(resps') EXCEPT !.hdr = h])
                 = Iterate(ug[1], Last(resps')) ]_vars

(***************************************************************************)
(* C9.  A subreddit listing query served n pages of which only the last    *)
(* has a null cursor issues exactly n GETs, one per page: the query ends   *)
(* on the page with the null cursor and not before, and a Table it         *)
(* returns has all the records.                                            *)
(***************************************************************************)
C9_OneRequestPerPage ==
    (Called("subreddit") /\ Ended /\ \A i \in 1..Len(resps) : IsPage(resps[i])) =>
        /\ Len(requests) = Len(resps)
        /\ CursorOf(Last(resps)) = PyNone
        /\ \A i \in 1..(Len(resps) - 1) : CursorOf(resps[i]) # PyNone
        /\ pc = "done" => Len(ret[1]) = Len(RecordsServed)

(***************************************************************************)
(* C10.  The credential is created once, before any listing request;       *)
(* every request carries that bearer; and once created neither the header  *)
(* nor the Token's expiry is ever replaced and no further authorization    *)
(* is made, also after the expiry instant has passed.                      *)
(***************************************************************************)
C10_CredentialOnce ==
    /\ [](/\ posts <= 1
          /\ requests # <<>> => posts = 1 /\ token # <<>>
          /\ \A i \in 1..Len(requests) :
               /\ "Authorization" \in DOMAIN requests[i].headers
               /\ "Authorization" \in DOMAIN headers
               /\ requests[i].headers["Authorization"] = headers["Authorization"]
               /\ requests[i].headers["Authorization"][2] \in server.tokens)
    /\ [][token # <<>> =>
            /\ headers' = headers
            /\ posts' = posts
            /\ token' # <<>> /\ token'[1].expire_time = token[1].expire_time]_vars

C10_RequestAfterExpiry ==
    /\ pc = "done"
    /\ Len(requests) >= 2
    /\ requests[1].at <= token[1].expire_time
    /\ Last(requests).at > token[1].expire_time

(***************************************************************************)
(* C11.  transform_df raises on every page with an item that lacks         *)
(* created_utc, whether all items lack it or only some, so the fetch ends  *)
(* there with that error; and no Table, accumulated or returned, has a row *)
(* without the timestamp derived from its epoch.                           *)
(***************************************************************************)
Timestamped(df) ==
    \A k \in 1..Len(df) :
        /\ {"created_utc", "timestamp"} \subseteq DOMAIN df[k]
        /\ df[k]["timestamp"] = FromTimestamp(df[k]["created_utc"])

C11_MissingEpochFails ==
    /\ \A i \in 1..Len(resps) :
         (IsListing(resps[i]) /\ ListingOf(resps[i]) \in LacksEpoch) =>
            /\ transform_df(resps[i].body).exc \in {"KeyError", "ValueError"}
            /\ i = Len(resps)
            /\ pc = "raised" /\ err = <<transform_df(resps[i].body).exc>>
            /\ ret = <<>>
    /\ ug # <<>> => \A j \in 1..Len(ug[1].result) : Timestamped(ug[1].result[j])
    /\ ret # <<>> => Timestamped(ret[1])

C11_SomeItemsLackEpoch ==
    /\ pc = "raised" /\ err = <<"ValueError">>
    /\ Len(resps) = 2
    /\ IsPage(resps[1])
    /\ IsListing(resps[2]) /\ ListingOf(resps[2]) = "partial"
    /\ \E j \in 1..Len(Payloads(resps[2])) : "created_utc" \in DOMAIN Payloads(resps[2])[j]

(***************************************************************************)
(* C12.  When one of the four secrets is missing from the environment,     *)
(* construction ends with the configuration error (RedditException)        *)
(* before any HTTP request: no POST to the token endpoint, no GET, no      *)
(* Token and no Authorization header.                                       *)
(***************************************************************************)
SecretsMissing == SecretNames \ DOMAIN environ

C12_MissingSecretIsFatal ==
    /\ pc = "start" => posts = 0 /\ requests = <<>>
    /\ (SecretsMissing # {} /\ pc # "start") =>
          /\ pc = "raised" /\ err = <<"RedditException">>
          /\ posts = 0 /\ requests = <<>>
          /\ token = <<>>
          /\ "Authorization" \notin DOMAIN headers

C12_OneSecretMissing ==
    /\ pc = "raised"
    /\ Cardinality(SecretsMissing) = 1
    /\ \A n \in DOMAIN environ : environ[n] = "secret"

(***************************************************************************)
(* C13.  util_get owns the `after` parameter: the first request of a fetch *)
(* carries the first-page sentinel (True) although subreddit passes        *)
(* after=None; every later request carries exactly the cursor of the       *)
(* response before it; the url and the other parameters are those of the   *)
(* caller on every request.                                                *)
(***************************************************************************)
Others(params) == [k \in DOMAIN params \ {"after"} |-> params[k]]

C13_FetcherOwnsCursor ==
    Called("subreddit") =>
        \A i \in 1..Len(requests) :
            /\ requests[i].params["after"]
                 = IF i = 1 THEN PyTrue ELSE CursorOf(resps[i - 1])
            /\ requests[i].params["after"] # PyNone
            /\ Others(requests[i].params) = ("limit" :> limit) @@ ("show" :> "all")
            /\ requests[i].url = <<url_base, <<"/r/", call[1].subreddit, "/", call[1].sort>>>>

C13_TwoCursorsFollowed ==
    /\ Called("subreddit") /\ pc = "done"
    /\ Len(requests) = 3
    /\ requests[1].params["after"] = PyTrue
    /\ requests[2].params["after"] = "t3_a" /\ CursorOf(resps[1]) = "t3_a"
    /\ requests[3].params["after"] = "t3_b" /\ CursorOf(resps[2]) = "t3_b"

(***************************************************************************)
(* C14.  A fetch whose last response is a successful listing that          *)
(* normalizes and whose cursor is null or absent has returned its Table    *)
(* with the records of every page, that one included: an absent cursor     *)
(* ends the fetch as a null one does.                                      *)
(***************************************************************************)
Normalizes(r) ==
    /\ IsListing(r) /\ r.status < 400
    /\ Payloads(r) # <<>> /\ ListingOf(r) \notin LacksEpoch
    /\ {"x-ratelimit-remaining", "x-ratelimit-reset"} \subseteq DOMAIN r.hdr

CursorEnds(r) == ~HasCursorField(r) \/ CursorOf(r) = PyNone

C14_AbsentCursorEnds ==
    (/\ Called("subreddit") /\ Ended
     /\ \A i \in 1..Len(resps) : Normalizes(resps[i])
     /\ CursorEnds(Last(resps)))
        => /\ pc = "done" /\ ret # <<>>
           /\ Len(ret[1]) = Len(RecordsServed)

(***************************************************************************)
(* C15.  The Table subreddit_top returns is the concatenation, in window   *)
(* order, of the Tables of the windows it fetched, re-indexed 0..N-1: it   *)
(* has as many rows as the windows have records together, row k is the     *)
(* k-th record served, and a record served by two windows is there twice.  *)
(***************************************************************************)
RECURSIVE SumWindows(_)
SumWindows(k) == IF k = 0 THEN 0 ELSE SumWindows(k - 1) + WindowRows(k)

C15_ConcatenationOfWindows ==
    (Called("subreddit_top") /\ pc = "done") =>
        LET served == RecordsServed
            df == ret[1]
        IN  /\ Len(df) = SumWindows(Invocations)
            /\ Len(df) = Len(served)
            /\ \A k \in 1..Len(df) :
                 /\ df[k]["index"] = k - 1
                 /\ df[k]["id"] = served[k]["id"]

C15_RecordInTwoWindows ==
    /\ Called("subreddit_top") /\ pc = "done"
    /\ Invocations = 2
    /\ WindowRows(1) = CapacityThreshold /\ WindowRows(2) = CapacityThreshold - 1
    /\ Len(ret[1]) = 2 * CapacityThreshold - 1
    /\ ret[1][1]["id"] = ret[1][CapacityThreshold + 1]["id"]
    /\ ret[1][CapacityThreshold + 1]["index"] = CapacityThreshold

(***************************************************************************)
(* C16.  A window other than hour that returned at least 900 records is    *)
(* followed by the fetch of the next finer window: a finished              *)
(* subreddit_top ended on a window with fewer than 900 records or on hour, *)
(* every window before the last returned at least 900, and the number of   *)
(* fetcher invocations is at most 6 minus the (zero-based) position of     *)
(* the starting window in top_list.                                        *)
(***************************************************************************)
WindowOf(k) == top_list[WindowPos(call[1].upto) + k - 1]

C16_WindowsEndAtFirstShort ==
    (Called("subreddit_top") /\ call[1].upto \in Range(top_list)) =>
        /\ Invocations <= Len(top_list) - (WindowPos(call[1].upto) - 1)
        /\ \A k \in 1..(Invocations - 1) :
             WindowRows(k) >= CapacityThreshold /\ WindowOf(k) # "hour"
        /\ pc = "done" =>
             \/ WindowRows(Invocations) < CapacityThreshold
             \/ WindowOf(Invocations) = "hour"

C16_AllSixWindowsFull ==
    /\ Called("subreddit_top") /\ call[1].upto = "all" /\ pc = "done"
    /\ Invocations = Len(top_list)
    /\ \A k \in 1..Len(top_list) : WindowRows(k) = CapacityThreshold

(***************************************************************************)
(* C17.  A page with no child items cannot be normalized: the fetch that   *)
(* receives one ends there with KeyError and returns nothing, no empty     *)
(* page is ever in an accumulated or returned Table, and no window of      *)
(* subreddit_top completes with zero records.                              *)
(***************************************************************************)
C17_EmptyPageAborts ==
    /\ \A i \in 1..Len(resps) :
         (IsListing(resps[i]) /\ Payloads(resps[i]) = <<>>) =>
            /\ i = Len(resps)
            /\ pc = "raised" /\ err = <<"KeyError">>
            /\ ret = <<>>
    /\ ug # <<>> => \A j \in 1..Len(ug[1].result) : ug[1].result[j] # <<>>
    /\ ret # <<>> => ret[1] # <<>>
    /\ Called("subreddit_top") =>
         \A k \in 1..Invocations :
            (k < Invocations \/ pc = "done") => WindowRows(k) >= 1

C17_EmptySecondWindow ==
    /\ Called("subreddit_top") /\ pc = "raised" /\ err = <<"KeyError">>
    /\ Invocations = 2
    /\ IsListing(Last(resps)) /\ Payloads(Last(resps)) = <<>>
    /\ HasCursorField(Last(resps)) /\ CursorOf(Last(resps)) = PyNone
    /\ Last(resps).status = 200

(***************************************************************************)
(* C18.  aggregate runs its five sub-queries one after another in the      *)
(* order rising, new, hot, top, controversial, none skipped and each       *)
(* begun only when the one before has fetched its last page; the plain     *)
(* ones send no window, the windowed ones start at month and never ask     *)
(* for all or year; the Table returned is the records served, in that      *)
(* order; and a failure in a sub-query ends aggregate with no Table and    *)
(* no later request.                                                       *)
(***************************************************************************)
AggregateSorts == PlainSorts \o WindowSorts
SortOf(i) == requests[i].url[2][4]
SortPos(i) == CHOOSE p \in 1..Len(AggregateSorts) : AggregateSorts[p] = SortOf(i)

C18_AggregateInOrder ==
    Called("aggregate") =>
        /\ \A i \in 1..Len(requests) :
             /\ SortOf(i) \in Range(AggregateSorts)
             /\ IF SortOf(i) \in Range(PlainSorts)
                THEN "t" \notin DOMAIN requests[i].params
                ELSE /\ "t" \in DOMAIN requests[i].params
                     /\ requests[i].params["t"] \in {"month", "week", "day", "hour"}
             /\ i = 1 => SortPos(i) = 1
             /\ i > 1 =>
                  /\ SortPos(i) \in {SortPos(i - 1), SortPos(i - 1) + 1}
                  /\ SortPos(i) # SortPos(i - 1) =>
                       /\ IsPage(resps[i - 1]) /\ CursorOf(resps[i - 1]) = PyNone
                       /\ requests[i].params["after"] = PyTrue
        /\ \A i \in 1..Len(resps) :
             StepFails(resps[i]) =>
                /\ i = Len(resps) /\ Len(requests) = Len(resps)
                /\ pc = "raised" /\ ret = <<>>
        /\ pc = "done" =>
             LET served == RecordsServed
                 df == ret[1]
             IN  /\ SortPos(Len(requests)) = Len(AggregateSorts)
                 /\ Len(df) = Len(served)
                 /\ \A k \in 1..Len(df) : df[k]["id"] = served[k]["id"]

C18_AllFiveReturned ==
    /\ Called("aggregate") /\ pc = "done"
    /\ {SortOf(i) : i \in 1..Len(requests)} = Range(AggregateSorts)
    /\ \E i \in 1..Len(requests) : SortOf(i) = "top" /\ requests[i].params["t"] = "week"
    /\ Last(requests).params["t"] = "month"
    /\ Len(ret[1]) = Len(RecordsServed)

(***************************************************************************)
(* C19.  The Token's expired flag is monotonic: false when the Token is    *)
(* created, set by check_expiration exactly when the time is past the      *)
(* expiry, in which case the call returns false and otherwise true, and    *)
(* never reset by any step; and once a call has returned false, every      *)
(* later call returns false.                                               *)
(***************************************************************************)
C19_ExpiredIsMonotonic ==
    /\ [](\A i \in 1..Len(checks) : \A j \in i..Len(checks) :
              checks[i] = FALSE => checks[j] = FALSE)
    /\ [](token # <<>> /\ token[1].expired =>
              token[1].expire_time < now /\ FALSE \in Range(checks))
    /\ [][ /\ (token = <<>> /\ token' # <<>>) => ~token'[1].expired
           /\ token # <<>> =>
                /\ token' # <<>>
                /\ token[1].expired => token'[1].expired
                /\ checks' = checks => token' = token
                /\ checks' # checks =>
                     /\ checks' = Append(checks, ~(token[1].expire_time < now))
                     /\ token'[1].expired
                          = (token[1].expired \/ token[1].expire_time < now) ]_vars

C19_ExpiredThenChecked ==
    /\ Len(checks) = 2
    /\ checks[1] = FALSE /\ checks[2] = FALSE
    /\ token[1].expired
    /\ now > token[1].expire_time

====
